---- MODULE Spec2Model ----
(***************************************************************************)
(* Model of silex.model.Element (src/src/js/model/element.js): the DOM     *)
(* tree of Silex elements, their class attribute, the sibling ordering     *)
(* operations, the style accessor and the asynchronous image loading.      *)
(*                                                                         *)
(* Strings the code splits, trims or compares are sequences of atoms: an   *)
(* atom is a class name (or a piece of text) or a single white space       *)
(* character, so that split(' '), trim() and join(' ') are computed.       *)
(***************************************************************************)
EXTENDS Integers, Sequences, FiniteSets, TLC

VARIABLES
  kind,        \* node -> "free" | "div" | "img" | "text"  (what the DOM node is)
  typeAttr,    \* node -> value of the data-silex-type attribute, or NULL
  className,   \* node -> the raw class attribute, a sequence of atoms
  silexId,     \* node -> the id the property model gave the node, or NULL
  childNodes,  \* node -> sequence of its child nodes (element.childNodes)
  activePage,  \* the page model's current page
  styleObject, \* node -> (css name -> stored value or UNDEFINED)
  loads,       \* the goog.net.ImageLoader instances started and not yet completed
  nextLoad,    \* number of image loaders created so far
  calls,       \* the callbacks the operations have invoked, in order
  fileUrl,     \* this.model.file.getUrl(): the url of the open file, or NULL
  link,        \* node -> value of the data-silex-href attribute, or NULL
  innerHTML,   \* node -> the html the node holds, a sequence of atoms
  lastOp,      \* the operation that ran last, with its arguments and result
  before       \* childNodes as they were when the last operation started

vars == <<kind, typeAttr, className, silexId, childNodes, activePage,
          styleObject, loads, nextLoad, calls, fileUrl, link, innerHTML,
          lastOp, before>>

----------------------------------------------------------------------------
(* Values *)

NULL == "null"
UNDEFINED == "undefined"
\* null and undefined where a string, a sequence of atoms, is expected
NULL_STRING == <<NULL>>
UNDEFINED_STRING == <<UNDEFINED>>

SP == " "
TAB == "\t"
WhiteSpace == {SP, TAB}

Body == "body"
Siblings == {"A", "B", "C", "D"}
ElemPool == <<"e1", "e2">>
ContentPool == <<"c1", "c2">>
ImgPool == <<"img1", "img2", "img3", "img4">>

\* number of image loads that may be started
MaxLoads == 2
\* longest raw class attribute written through setProperty, in atoms
MaxClassLen == 3

Range(s) == {s[i] : i \in 1..Len(s)}

Nodes == {Body} \cup Siblings \cup Range(ElemPool) \cup Range(ContentPool) \cup Range(ImgPool)

UP == "UP"
DOWN == "DOWN"
TOP == "TOP"
BOTTOM == "BOTTOM"
DomDirection == {UP, DOWN, TOP, BOTTOM}

LOADING_ELEMENT_CSS_CLASS == "loading-image"
TYPE_CONTAINER == "container"
TYPE_IMAGE == "image"
TYPE_TEXT == "text"
TYPE_HTML == "html"
Types == {TYPE_CONTAINER, TYPE_IMAGE, TYPE_TEXT, TYPE_HTML}
ELEMENT_CONTENT_CLASS_NAME == "silex-element-content"
SELECTED_CLASS_NAME == "silex-selected"
JUST_ADDED_CLASS_NAME == "silex-just-added"
EDITABLE_CLASS_NAME == "editable-style"
\* silex.view.Stage.BACKGROUND_CLASS_NAME, the class of the main container
BACKGROUND_CLASS_NAME == "background"

\* the page model's registered pages (this.model.page.getPages())
getPages == {"page1", "page2"}

\* silex.utils.Style.SILEX_CLASS_NAMES, the classes Silex uses internally
SILEX_CLASS_NAMES ==
  {EDITABLE_CLASS_NAME, SELECTED_CLASS_NAME, JUST_ADDED_CLASS_NAME,
   LOADING_ELEMENT_CSS_CLASS, "container-element", "image-element",
   "text-element", "html-element"}

----------------------------------------------------------------------------
(* Strings as sequences of atoms *)

RECURSIVE SplitOn(_, _)
\* String.prototype.split(sep) for a one character separator: the pieces
\* between the separators, empty pieces included; "" splits into <<"">>
SplitOn(s, seps) ==
  IF \A i \in 1..Len(s) : s[i] \notin seps
    THEN <<s>>
    ELSE LET i == CHOOSE j \in 1..Len(s) :
                    s[j] \in seps /\ \A k \in 1..(j - 1) : s[k] \notin seps
         IN  <<SubSeq(s, 1, i - 1)>> \o SplitOn(SubSeq(s, i + 1, Len(s)), seps)

RECURSIVE JoinWith(_, _)
\* Array.prototype.join(sep)
JoinWith(tokens, sep) ==
  IF Len(tokens) = 0 THEN <<>>
  ELSE IF Len(tokens) = 1 THEN tokens[1]
  ELSE tokens[1] \o <<sep>> \o JoinWith(Tail(tokens), sep)

RECURSIVE TrimLeft(_)
TrimLeft(s) ==
  IF Len(s) > 0 /\ s[1] \in WhiteSpace THEN TrimLeft(Tail(s)) ELSE s

RECURSIVE TrimRight(_)
TrimRight(s) ==
  IF Len(s) > 0 /\ s[Len(s)] \in WhiteSpace
    THEN TrimRight(SubSeq(s, 1, Len(s) - 1)) ELSE s

\* String.prototype.trim()
Trim(s) == TrimRight(TrimLeft(s))

RECURSIVE Dedup(_)
\* a sequence with every later repetition of an entry dropped
Dedup(s) ==
  IF Len(s) = 0 THEN <<>>
  ELSE LET init == Dedup(SubSeq(s, 1, Len(s) - 1))
       IN  IF s[Len(s)] \in Range(init) THEN init ELSE Append(init, s[Len(s)])

\* Element.classList: the attribute split on white space, empty pieces and
\* repetitions dropped (the DOM's ordered set parser)
classList(s) ==
  LET NonEmpty(t) == Len(t) > 0
  IN  Dedup(SelectSeq(SplitOn(s, WhiteSpace), NonEmpty))

\* the DOM's ordered set serializer: the tokens joined by single spaces
Serialize(tokens) == JoinWith(tokens, SP)

\* the class names an element carries
ClassesOf(s) == {t[1] : t \in {u \in Range(classList(s)) : Len(u) = 1}}

\* Element.classList.contains(name)
classListContains(s, name) == <<name>> \in Range(classList(s))

\* Element.classList.add(token), token a string without white space
classListAddToken(s, token) ==
  Serialize(Dedup(Append(classList(s), token)))

\* Element.classList.add(name) and goog.dom.classlist.add(element, name)
classListAdd(s, name) == classListAddToken(s, <<name>>)

\* a remove that leaves the class attribute as it is
classListRemove_Kept(s, name) == s

\* Element.classList.remove(name); an absent attribute with no token stays absent
classListRemove(s, name) ==
  LET NotIt(t) == t # <<name>>
  IN  IF s = <<>> THEN s ELSE Serialize(SelectSeq(classList(s), NotIt))

----------------------------------------------------------------------------
(* The DOM tree *)

\* Node.nodeType: 1 for an element, 3 for a text node
nodeType(n) == IF kind[n] \in {"div", "img"} THEN 1 ELSE 3

\* index of node n in the sequence cs, 0 when it is not in it
IndexOf(cs, n) ==
  IF n \in Range(cs) THEN CHOOSE i \in 1..Len(cs) : cs[i] = n ELSE 0

\* the sequence cs without node n
Without(cs, n) ==
  LET NotIt(x) == x # n IN SelectSeq(cs, NotIt)

\* Node.parentNode in the tree cn
parentNode(cn, n) ==
  IF \E p \in Nodes : n \in Range(cn[p])
    THEN CHOOSE p \in Nodes : n \in Range(cn[p])
    ELSE NULL

\* Node.nextSibling in the tree cn
nextSibling(cn, n) ==
  LET p == parentNode(cn, n)
      i == IndexOf(cn[p], n)
  IN  IF p = NULL \/ i = Len(cn[p]) THEN NULL ELSE cn[p][i + 1]

\* goog.dom.removeNode(n): the tree with n detached from its parent
removeNode(cn, n) ==
  [p \in Nodes |-> Without(cn[p], n)]

\* parent.insertBefore(node, ref): node leaves the place it had and enters
\* parent's children before ref, at the end when ref is null; a ref that is
\* node itself stands for node's next sibling
insertBefore(cn, parent, node, ref) ==
  LET r   == IF ref = node THEN nextSibling(cn, node) ELSE ref
      cut == removeNode(cn, node)
      cs  == cut[parent]
      i   == IndexOf(cs, r)
  IN  [cut EXCEPT ![parent] =
         IF r = NULL THEN Append(cs, node)
         ELSE SubSeq(cs, 1, i - 1) \o <<node>> \o SubSeq(cs, i, Len(cs))]

\* parent.appendChild(node) and goog.dom.appendChild(parent, node)
appendChild(cn, parent, node) == insertBefore(cn, parent, node, NULL)

RECURSIVE Descendants(_, _)
\* the nodes below n in the tree cn, in document order
Descendants(cn, n) ==
  LET RECURSIVE Walk(_)
      Walk(cs) == IF Len(cs) = 0 THEN <<>>
                  ELSE <<cs[1]>> \o Descendants(cn, cs[1]) \o Walk(Tail(cs))
  IN  Walk(cn[n])

----------------------------------------------------------------------------
(* The page model (silex.model.Page), read through the class attribute *)

\* this.model.page.isInPage(el): el carries the class of the current page
isInPage(el) == classListContains(className[el], activePage)

\* this.model.page.getPagesForElement(el): the pages whose class el carries
getPagesForElement(el) ==
  {p \in getPages : classListContains(className[el], p)}

----------------------------------------------------------------------------
(* Type and ordering *)

\* silex.model.Element.prototype.getType
getType(element) == typeAttr[element]

\* a candidate test that forgets the elements that are on no page
IsCandidate_CurrentPageOnly(el) == isInPage(el)

\* the test getPreviousElement and getNextElement make of a sibling they
\* did not return at: it becomes the tracked candidate
IsCandidate(el) ==
  isInPage(el) \/ Cardinality(getPagesForElement(el)) = 0

\* a test that takes every element for a Silex element
IsSilexElement_AnyElement(el) == nodeType(el) = 1

\* a sibling the two scans look at at all
IsSilexElement(el) == nodeType(el) = 1 /\ getType(el) # NULL

RECURSIVE ScanForward(_, _, _, _)
\* the loop of getPreviousElement from index idx on, res the candidate so far
ScanForward(cs, idx, res, element) ==
  IF idx > Len(cs) THEN NULL
  ELSE LET el == cs[idx]
       IN  IF IsSilexElement(el)
             THEN IF el = element THEN res
                  ELSE ScanForward(cs, idx + 1,
                                   IF IsCandidate(el) THEN el ELSE res, element)
             ELSE ScanForward(cs, idx + 1, res, element)

RECURSIVE ScanBackward(_, _, _, _)
\* the loop of getNextElement from index idx down, res the candidate so far
ScanBackward(cs, idx, res, element) ==
  IF idx < 1 THEN NULL
  ELSE LET el == cs[idx]
       IN  IF IsSilexElement(el)
             THEN IF el = element THEN res
                  ELSE ScanBackward(cs, idx - 1,
                                    IF IsCandidate(el) THEN el ELSE res, element)
             ELSE ScanBackward(cs, idx - 1, res, element)

\* silex.model.Element.prototype.getPreviousElement, in the tree cn
getPreviousElement(cn, element) ==
  ScanForward(cn[parentNode(cn, element)], 1, NULL, element)

\* silex.model.Element.prototype.getNextElement, in the tree cn
getNextElement(cn, element) ==
  LET cs == cn[parentNode(cn, element)]
  IN  ScanBackward(cs, Len(cs), NULL, element)

\* an UP that sends the next element to the end of the parent
moveUp_ToEnd(cn, element) ==
  LET sibling == getNextElement(cn, element)
  IN  IF sibling # NULL
        THEN insertBefore(cn, parentNode(cn, element), sibling, NULL)
        ELSE cn

\* case UP of move: the next element, if any, goes right before element
moveUp(cn, element) ==
  LET sibling == getNextElement(cn, element)
  IN  IF sibling # NULL
        THEN insertBefore(cn, parentNode(cn, element), sibling, element)
        ELSE cn

\* a DOWN that inserts the sibling before element instead of after it
moveDown_BeforeElement(cn, element) ==
  LET sibling == getPreviousElement(cn, element)
  IN  IF sibling # NULL
        THEN insertBefore(cn, parentNode(cn, element), sibling, element)
        ELSE cn

\* case DOWN of move: the previous element, if any, goes right after element
moveDown(cn, element) ==
  LET sibling == getPreviousElement(cn, element)
  IN  IF sibling # NULL
        THEN insertBefore(cn, parentNode(cn, element), sibling,
                          nextSibling(cn, element))
        ELSE cn

\* case TOP of move: element becomes the last child
moveTop(cn, element) == appendChild(cn, parentNode(cn, element), element)

\* a BOTTOM with the arguments of insertBefore exchanged
moveBottom_Swapped(cn, element) ==
  LET parent == parentNode(cn, element)
  IN  insertBefore(cn, parent, cn[parent][1], element)

\* a BOTTOM that inserts before the second child
moveBottom_BeforeSecond(cn, element) ==
  LET parent == parentNode(cn, element)
  IN  insertBefore(cn, parent, element,
                   IF Len(cn[parent]) > 1 THEN cn[parent][2] ELSE NULL)

\* case BOTTOM of move: element goes before the first child
moveBottom(cn, element) ==
  LET parent == parentNode(cn, element)
  IN  insertBefore(cn, parent, element, cn[parent][1])

\* the tree after the switch of silex.model.Element.prototype.move
move(cn, element, direction) ==
  CASE direction = UP -> moveUp(cn, element)
    [] direction = DOWN -> moveDown(cn, element)
    [] direction = TOP -> moveTop(cn, element)
    [] direction = BOTTOM -> moveBottom(cn, element)

----------------------------------------------------------------------------
(* Content node and image loading *)

\* goog.dom.getElementsByClass(name, element): the descendants of element
\* that carry the class, in document order
getElementsByClass(cn, cls, name, element) ==
  LET Has(n) == classListContains(cls[n], name)
  IN  SelectSeq(Descendants(cn, element), Has)

\* goog.dom.getElementByClass(name, element): the first of them, or null
getElementByClass(cn, cls, name, element) ==
  LET found == getElementsByClass(cn, cls, name, element)
  IN  IF Len(found) > 0 THEN found[1] ELSE NULL

\* silex.model.Element.prototype.getContentNode
getContentNode(cn, cls, element) ==
  LET contentElements == getElementsByClass(cn, cls, ELEMENT_CONTENT_CLASS_NAME, element)
  IN  IF Len(contentElements) = 1 THEN contentElements[1] ELSE element

\* goog.dom.getElementsByTagNameAndClass('img', name, element)
getImgsByClass(cn, cls, name, element) ==
  LET IsImg(n) == kind[n] = "img"
  IN  SelectSeq(getElementsByClass(cn, cls, name, element), IsImg)

\* setImageUrl, "remove previous img tag": the first content image goes
removePreviousImg(cn, cls, element) ==
  LET imgTags == getImgsByClass(cn, cls, ELEMENT_CONTENT_CLASS_NAME, element)
  IN  IF Len(imgTags) > 0 THEN removeNode(cn, imgTags[1]) ELSE cn

\* a LOAD handler that forgets the content marker
markContent_Forgotten(s) == s

\* LOAD handler: the marker class added to the loaded image
markContent(s) == classListAdd(s, ELEMENT_CONTENT_CLASS_NAME)

\* the url given to setImageUrl; no code of the element model reads it
Urls == {"a.png"}

\* the image node the loader with this id creates
ImageOf(id) == ImgPool[id]

\* the loaders started for element after the loader l
LaterLoads(l) == {m \in loads : m.element = l.element /\ m.id > l.id}

----------------------------------------------------------------------------
(* The html a style value or an element content holds: a sequence of atoms, *)
(* each a tag, a url, a line break or a piece of text                       *)

SCRIPT_BARE == "<script class=\"silex-script\">"
SCRIPT_JS == "<script type=\"text/javascript\" class=\"silex-script\">"
SCRIPT_NOTJS == "<script type=\"text/notjavascript\" class=\"silex-script\">"
SCRIPT_OTHER == "<script src=\"lib.js\">"
NEWLINE == "\n"
URL_REL == "url(img.png)"
URL_ABS == "url(http://host/site/img.png)"
\* a url that carries the cache control parameter, and the static scripts
\* folder written relative to the file and as unprepareHtmlForEdit writes it
URL_CACHED == "url(img.png?silex-cache-control=1)"
STATIC_REL == "../../../../../static/"
STATIC_URL == "//host/static/"
TEXT_ATOM == "<p>x</p>"

\* the atoms in which the text <script begins
ScriptStart == {SCRIPT_BARE, SCRIPT_JS, SCRIPT_NOTJS, SCRIPT_OTHER}

\* the atoms that hold class="silex-script" and, after it, a >
SilexScript == {SCRIPT_BARE, SCRIPT_JS, SCRIPT_NOTJS}

\* one line under /<script.*class=\"silex-script\".*?>/gi: the match starts
\* at the first <script that has the class ahead of it on the line and,
\* .* being greedy, runs to the end of the last tag that holds the class
neutralizeLine(line) ==
  LET classAt == {j \in 1..Len(line) : line[j] \in SilexScript}
      last == CHOOSE j \in classAt : \A k \in classAt : k <= j
      startAt == {i \in 1..Len(line) : line[i] \in ScriptStart /\ i <= last}
      first == CHOOSE i \in startAt : \A k \in startAt : i <= k
  IN  IF classAt = {} THEN line
      ELSE SubSeq(line, 1, first - 1) \o <<SCRIPT_NOTJS>>
             \o SubSeq(line, last + 1, Len(line))

\* prepareHtmlForEdit, first step: the script tags of every line neutralized
neutralizeScripts(html) ==
  LET lines == SplitOn(html, {NEWLINE})
  IN  JoinWith([i \in 1..Len(lines) |-> neutralizeLine(lines[i])], NEWLINE)

\* silex.utils.Url.relative2Absolute: every relative url made absolute
relative2Absolute(html) ==
  [i \in 1..Len(html) |-> IF html[i] = URL_REL THEN URL_ABS ELSE html[i]]

\* silex.utils.Url.absolute2Relative: every url below the base made relative
absolute2Relative(html) ==
  [i \in 1..Len(html) |-> IF html[i] = URL_ABS THEN URL_REL ELSE html[i]]

\* silex.model.Element.prototype.prepareHtmlForEdit
prepareHtmlForEdit(rawHtml) ==
  LET html == neutralizeScripts(rawHtml)
  IN  IF fileUrl # NULL THEN relative2Absolute(html) ELSE html

\* unprepareHtmlForEdit, first step: every type="text/notjavascript" made
\* type="text/javascript"
restoreScripts(html) ==
  [i \in 1..Len(html) |-> IF html[i] = SCRIPT_NOTJS THEN SCRIPT_JS ELSE html[i]]

\* silex.utils.Dom.removeCacheControl: the cache control parameter taken
\* off every url
removeCacheControl(html) ==
  [i \in 1..Len(html) |-> IF html[i] = URL_CACHED THEN URL_REL ELSE html[i]]

\* unprepareHtmlForEdit, last step: a long ascent to the static folder
\* replaced by the protocol agnostic url of that folder
restoreStatic(html) ==
  [i \in 1..Len(html) |-> IF html[i] = STATIC_REL THEN STATIC_URL ELSE html[i]]

\* silex.model.Element.prototype.unprepareHtmlForEdit
unprepareHtmlForEdit(rawHtml) ==
  LET html == removeCacheControl(restoreScripts(rawHtml))
  IN  IF fileUrl # NULL THEN restoreStatic(absolute2Relative(html)) ELSE html

----------------------------------------------------------------------------
(* State shared by the specifications *)

NoOp == [op |-> "none"]

\* the css names the style accessor is exercised with
StyleNames ==
  {"color", "background-image", "background-color", "height", "width", "top", "left"}

\* the document before any element exists: an empty body
EmptyDocument ==
  /\ kind = [n \in Nodes |-> IF n = Body THEN "div" ELSE "free"]
  /\ typeAttr = [n \in Nodes |-> NULL]
  /\ className = [n \in Nodes |-> <<>>]
  /\ silexId = [n \in Nodes |-> NULL]
  /\ childNodes = [n \in Nodes |-> <<>>]
  /\ styleObject = [n \in Nodes |-> [name \in StyleNames |-> UNDEFINED_STRING]]
  /\ loads = {}
  /\ nextLoad = 0
  /\ calls = <<>>
  /\ link = [n \in Nodes |-> NULL]
  /\ innerHTML = [n \in Nodes |-> <<>>]
  /\ fileUrl = NULL
  /\ lastOp = NoOp
  /\ before = childNodes

----------------------------------------------------------------------------
(* Ordering: the children of one parent *)

\* what a child of the parent can be: a text node, an element that is no
\* Silex element, or a Silex element on no page, on the current page or on
\* another page
SiblingKinds ==
  {[kind |-> "text", type |-> NULL, cls |-> <<>>],
   [kind |-> "div", type |-> NULL, cls |-> <<>>]}
  \cup {[kind |-> "div", type |-> TYPE_CONTAINER, cls |-> c] :
          c \in {<<>>, <<"page1">>, <<"page2">>}}

\* the four siblings are Silex elements, each on any set of pages
PagedKinds ==
  {[kind |-> "div", type |-> TYPE_CONTAINER, cls |-> c] :
     c \in {<<>>, <<"page1">>, <<"page2">>, <<"page1", SP, "page2">>}}

\* a loaded document: the body holds the four siblings, each of a kind of K
LoadedDocument(K) ==
  \E k \in [Siblings -> K] :
    /\ kind = [n \in Nodes |-> IF n = Body THEN "div"
                               ELSE IF n \in Siblings THEN k[n].kind ELSE "free"]
    /\ typeAttr = [n \in Nodes |-> IF n \in Siblings THEN k[n].type ELSE NULL]
    /\ className = [n \in Nodes |-> IF n \in Siblings THEN k[n].cls ELSE <<>>]
    /\ silexId = [n \in Nodes |-> NULL]
    /\ childNodes = [n \in Nodes |-> IF n = Body THEN <<"A", "B", "C", "D">> ELSE <<>>]
    /\ activePage = "page1"
    /\ styleObject = [n \in Nodes |-> [name \in StyleNames |-> UNDEFINED_STRING]]
    /\ loads = {}
    /\ nextLoad = 0
    /\ calls = <<>>
    /\ link = [n \in Nodes |-> NULL]
    /\ innerHTML = [n \in Nodes |-> <<>>]
    /\ fileUrl = NULL
    /\ lastOp = NoOp
    /\ before = childNodes

InitOrder == LoadedDocument(SiblingKinds)

InitPages == LoadedDocument(PagedKinds)

\* what the move that is starting follows: "UP" when it is a DOWN called
\* right after an UP of the same element that found a sibling, "UP-noop" when
\* that UP found none, "TOP" when it is a BOTTOM called right after a TOP of
\* the same element, "other" in every other case
Follows(element, direction) ==
  IF lastOp.op = "move" /\ lastOp.element = element
    THEN CASE direction = DOWN /\ lastOp.direction = UP ->
                IF lastOp.sibling # NULL THEN "UP" ELSE "UP-noop"
           [] direction = BOTTOM /\ lastOp.direction = TOP -> "TOP"
           [] OTHER -> "other"
    ELSE "other"

\* silex.model.Element.prototype.move(element, direction) on an attached element
Move(element, direction) ==
  /\ nodeType(element) = 1
  /\ kind[element] # "free"
  /\ parentNode(childNodes, element) # NULL
  /\ childNodes' = move(childNodes, element, direction)
  /\ className' = [className EXCEPT
                     ![element] = classListRemove(@, JUST_ADDED_CLASS_NAME)]
  /\ lastOp' = [op |-> "move", element |-> element, direction |-> direction,
                sibling |-> CASE direction = UP -> getNextElement(childNodes, element)
                              [] direction = DOWN -> getPreviousElement(childNodes, element)
                              [] OTHER -> NULL,
                after |-> Follows(element, direction),
                justAdded |-> classListContains(className[element],
                                                JUST_ADDED_CLASS_NAME)]
  /\ before' = childNodes
  /\ UNCHANGED <<fileUrl, link, innerHTML, kind, typeAttr, silexId, activePage, styleObject, loads, nextLoad, calls>>

\* a call of getPreviousElement(element), its result kept
GetPreviousElement(element) ==
  /\ kind[element] # "free"
  /\ parentNode(childNodes, element) # NULL
  /\ lastOp' = [op |-> "getPreviousElement", element |-> element,
                result |-> getPreviousElement(childNodes, element)]
  /\ before' = childNodes
  /\ UNCHANGED <<fileUrl, link, innerHTML, kind, typeAttr, className, silexId, childNodes, activePage,
                 styleObject, loads, nextLoad, calls>>

\* a call of getNextElement(element), its result kept
GetNextElement(element) ==
  /\ kind[element] # "free"
  /\ parentNode(childNodes, element) # NULL
  /\ lastOp' = [op |-> "getNextElement", element |-> element,
                result |-> getNextElement(childNodes, element)]
  /\ before' = childNodes
  /\ UNCHANGED <<fileUrl, link, innerHTML, kind, typeAttr, className, silexId, childNodes, activePage,
                 styleObject, loads, nextLoad, calls>>

\* the page model opens another page (silex.model.Page.setCurrentPage)
SetCurrentPage(page) ==
  /\ page # activePage
  /\ activePage' = page
  /\ lastOp' = [op |-> "setCurrentPage", page |-> page]
  /\ before' = childNodes
  /\ UNCHANGED <<fileUrl, link, innerHTML, kind, typeAttr, className, silexId, childNodes,
                 styleObject, loads, nextLoad, calls>>

NextOrder ==
  \E element \in Siblings, direction \in DomDirection : Move(element, direction)

SpecOrder == InitOrder /\ [][NextOrder]_vars

NextPages ==
  \/ \E element \in Siblings : GetPreviousElement(element)
  \/ \E element \in Siblings : GetNextElement(element)
  \/ \E page \in getPages : SetCurrentPage(page)

SpecPages == InitPages /\ [][NextPages]_vars

----------------------------------------------------------------------------
(* Creation and image loading *)

\* the default style createElement gives an element of this type
DefaultStyle(type) ==
  [name \in StyleNames |->
     CASE name \in {"height", "width"} -> <<"100px">>
       [] name \in {"top", "left"} -> <<"100px+scroll">>
       [] name = "background-color" /\ type \in {TYPE_CONTAINER, TYPE_HTML} -> <<"#FFFFFF">>
       [] OTHER -> UNDEFINED_STRING]

\* the generated id the property model gives the i-th element
SilexIdOf(i) == IF i = 1 THEN "silex-id-1" ELSE "silex-id-2"

\* silex.model.Element.prototype.addElement: the class attribute it leaves
addElementClass(s) == classListAdd(s, JUST_ADDED_CLASS_NAME)

\* a createElement that always takes the stage for the container
createContainer_Stage(cn, cls) == Body

\* createElement, "find the container": the main background container or
\* the stage
createContainer(cn, cls) ==
  LET container == getElementByClass(cn, cls, BACKGROUND_CLASS_NAME, Body)
  IN  IF container # NULL THEN container ELSE Body

\* the html createTextElement and createHtmlElement put in the content node
NEW_TEXT_BOX == "New text box"
NEW_HTML_BOX == "<p>New HTML box</p>"

\* silex.model.Element.prototype.createElement(type)
CreateElement(type) ==
  \E i \in 1..Len(ElemPool) :
    LET element == ElemPool[i]
        content == ContentPool[i]
        withContent == type \in {TYPE_TEXT, TYPE_HTML}
        container == createContainer(childNodes, className)
    IN  /\ kind[element] = "free"
        /\ \A j \in 1..(i - 1) : kind[ElemPool[j]] # "free"
        /\ kind' = [kind EXCEPT ![element] = "div",
                                ![content] = IF withContent THEN "div" ELSE @]
        /\ typeAttr' = [typeAttr EXCEPT ![element] = type]
        /\ silexId' = [silexId EXCEPT ![element] = SilexIdOf(i)]
        /\ className' =
             [className EXCEPT
                ![element] = addElementClass(
                               classListAdd(
                                 classListAdd(
                                   classListAdd(<<>>, EDITABLE_CLASS_NAME),
                                   SilexIdOf(i)),
                                 type \o "-element")),
                ![content] = IF type = TYPE_TEXT
                               THEN classListAdd(classListAdd(<<>>, ELEMENT_CONTENT_CLASS_NAME), "normal")
                             ELSE IF type = TYPE_HTML
                               THEN classListAdd(<<>>, ELEMENT_CONTENT_CLASS_NAME)
                             ELSE @]
        /\ styleObject' = [styleObject EXCEPT ![element] = DefaultStyle(type)]
        /\ childNodes' =
             appendChild(IF withContent
                           THEN appendChild(childNodes, element, content)
                           ELSE childNodes,
                         container, element)
        /\ innerHTML' = [innerHTML EXCEPT
                           ![content] = IF type = TYPE_TEXT THEN <<NEW_TEXT_BOX>>
                                        ELSE IF type = TYPE_HTML THEN <<NEW_HTML_BOX>>
                                        ELSE @]
        /\ lastOp' = [op |-> "createElement", type |-> type, element |-> element]
        /\ before' = childNodes
        /\ UNCHANGED <<fileUrl, link, activePage, loads, nextLoad, calls>>

\* a type test that takes every element for an image
isImage_Always(element) == TRUE

\* setImageUrl, the test of the type attribute of the element
isImage(element) == typeAttr[element] = TYPE_IMAGE

\* silex.model.Element.prototype.setImageUrl(element, url, opt_callback,
\* opt_errorCallback); cb and errCb tell whether the callbacks are given
SetImageUrl(element, url, cb, errCb) ==
  /\ kind[element] = "div"
  /\ element # Body
  /\ IF isImage(element)
       THEN /\ nextLoad < MaxLoads
            /\ nextLoad' = nextLoad + 1
            /\ loads' = loads \cup {[id |-> nextLoad + 1, element |-> element,
                                     url |-> url, cb |-> cb, errCb |-> errCb,
                                     state |-> "LOADING"]}
            /\ className' = [className EXCEPT
                               ![element] = classListAdd(@, LOADING_ELEMENT_CSS_CLASS)]
            /\ childNodes' = removePreviousImg(childNodes, className, element)
            /\ calls' = calls
       ELSE /\ Len(calls) < MaxLoads
            /\ calls' = IF errCb
                          THEN Append(calls, [fn |-> "errorCallback", load |-> 0,
                                              element |-> element,
                                              message |-> "The element is not an image."])
                          ELSE calls
            /\ UNCHANGED <<fileUrl, link, innerHTML, nextLoad, loads, className, childNodes>>
  /\ lastOp' = [op |-> "setImageUrl", element |-> element, errCb |-> errCb]
  /\ before' = childNodes
  /\ UNCHANGED <<fileUrl, link, innerHTML, kind, typeAttr, silexId, activePage, styleObject>>

\* the LOAD listener of setImageUrl, run when the loader l has its image
LoadSuccess(l) ==
  LET element == l.element
      img == ImageOf(l.id)
  IN  /\ l.state = "LOADING"
      /\ kind' = [kind EXCEPT ![img] = "img"]
      /\ calls' = IF l.cb
                    THEN Append(calls,
                           [fn |-> "callback", load |-> l.id, element |-> element,
                            img |-> img,
                            contentNode |-> getContentNode(childNodes, className, element),
                            loading |-> classListContains(className[element],
                                                          LOADING_ELEMENT_CSS_CLASS)])
                    ELSE calls
      /\ childNodes' = appendChild(childNodes, element, img)
      /\ className' = [className EXCEPT
                         ![img] = markContent(@),
                         ![element] = classListRemove(@, LOADING_ELEMENT_CSS_CLASS)]
      /\ loads' = (loads \ {l}) \cup {[l EXCEPT !.state = "LOADED"]}
      /\ lastOp' = [op |-> "load", load |-> l.id, element |-> element]
      /\ before' = childNodes
      /\ UNCHANGED <<fileUrl, link, innerHTML, typeAttr, silexId, activePage, styleObject, nextLoad>>

\* an ERROR listener that takes the loading class off the element
classAfterError_Cleared(s) == classListRemove(s, LOADING_ELEMENT_CSS_CLASS)

\* ERROR listener: the class attribute of the element, which it leaves alone
classAfterError(s) == s

\* the ERROR listener of setImageUrl, run when the loader l failed
LoadError(l) ==
  /\ l.state = "LOADING"
  /\ className' = [className EXCEPT ![l.element] = classAfterError(@)]
  /\ calls' = IF l.errCb
                THEN Append(calls, [fn |-> "errorCallback", load |-> l.id,
                                    element |-> l.element,
                                    message |-> "An error occured while loading the image."])
                ELSE calls
  /\ loads' = (loads \ {l}) \cup {[l EXCEPT !.state = "FAILED"]}
  /\ lastOp' = [op |-> "error", load |-> l.id, element |-> l.element]
  /\ before' = childNodes
  /\ UNCHANGED <<fileUrl, link, innerHTML, kind, typeAttr, silexId, childNodes, activePage,
                 styleObject, nextLoad>>

InitImage == EmptyDocument /\ activePage = "page1"

NextImage ==
  \/ \E type \in Types : CreateElement(type)
  \/ \E element \in Range(ElemPool), url \in Urls, cb \in BOOLEAN, errCb \in BOOLEAN :
       SetImageUrl(element, url, cb, errCb)
  \/ \E l \in loads : LoadSuccess(l)
  \/ \E l \in loads : LoadError(l)

SpecImage == InitImage /\ [][NextImage]_vars

----------------------------------------------------------------------------
(* The tree: elements added to a container and removed from the stage *)

\* a test of the place of element that takes every node as one of the stage
contains_Anywhere(cn, a, n) == TRUE

\* goog.dom.contains(a, n): n is a or lies below a
contains(cn, a, n) == n = a \/ n \in Range(Descendants(cn, a))

\* silex.model.Element.prototype.addElement(container, element); the DOM
\* refuses a container that is element or lies below it
AddElement(container, element) ==
  /\ kind[container] = "div"
  /\ kind[element] = "div"
  /\ element # Body
  /\ ~contains(childNodes, element, container)
  /\ childNodes' = appendChild(childNodes, container, element)
  /\ className' = [className EXCEPT ![element] = addElementClass(@)]
  /\ lastOp' = [op |-> "addElement", container |-> container, element |-> element]
  /\ before' = childNodes
  /\ UNCHANGED <<fileUrl, link, innerHTML, kind, typeAttr, silexId, activePage,
                 styleObject, loads, nextLoad, calls>>

\* removeElement, "check this is allowed, i.e. an element inside the stage
\* container"
removeAllowed(cn, element) == Body # element /\ contains(cn, Body, element)

\* silex.model.Element.prototype.removeElement(element); reported tells
\* whether console.error was called
RemoveElement(element) ==
  /\ kind[element] # "free"
  /\ childNodes' = IF removeAllowed(childNodes, element)
                     THEN removeNode(childNodes, element)
                     ELSE childNodes
  /\ lastOp' = [op |-> "removeElement", element |-> element,
                reported |-> ~removeAllowed(childNodes, element)]
  /\ before' = childNodes
  /\ UNCHANGED <<fileUrl, link, innerHTML, kind, typeAttr, className, silexId,
                 activePage, styleObject, loads, nextLoad, calls>>

\* a document whose body holds the main background container, a Silex
\* container the stage marks with the background class
BackgroundDocument ==
  /\ kind = [n \in Nodes |-> IF n \in {Body, "A"} THEN "div" ELSE "free"]
  /\ typeAttr = [n \in Nodes |-> IF n = "A" THEN TYPE_CONTAINER ELSE NULL]
  /\ className = [n \in Nodes |->
                    IF n = "A"
                      THEN <<EDITABLE_CLASS_NAME, SP, BACKGROUND_CLASS_NAME, SP,
                             "container-element">>
                      ELSE <<>>]
  /\ silexId = [n \in Nodes |-> NULL]
  /\ childNodes = [n \in Nodes |-> IF n = Body THEN <<"A">> ELSE <<>>]
  /\ styleObject = [n \in Nodes |-> [name \in StyleNames |-> UNDEFINED_STRING]]
  /\ loads = {}
  /\ nextLoad = 0
  /\ calls = <<>>
  /\ link = [n \in Nodes |-> NULL]
  /\ innerHTML = [n \in Nodes |-> <<>>]
  /\ fileUrl = NULL
  /\ lastOp = NoOp
  /\ before = childNodes

InitTree == (EmptyDocument \/ BackgroundDocument) /\ activePage = "page1"

\* the elements the operations are called with: the body, the background
\* container and the elements created since
Existing == {n \in {Body, "A"} \cup Range(ElemPool) : kind[n] # "free"}

NextTree ==
  \/ \E type \in Types : CreateElement(type)
  \/ \E container \in Existing, element \in Existing : AddElement(container, element)
  \/ \E element \in Existing : RemoveElement(element)

SpecTree == InitTree /\ [][NextTree]_vars

----------------------------------------------------------------------------
(* The style accessor *)

\* goog.string.toSelectorCase on the names the accessor is called with
toSelectorCase(styleName) ==
  CASE styleName = "backgroundImage" -> "background-image"
    [] styleName = "backgroundColor" -> "background-color"
    [] OTHER -> styleName

\* the style names setStyle is called with, camel case and css case
StyleArgs == {"color", "backgroundImage", "background-image"}

\* the values setStyle is called with, the absent value among them
StyleValues ==
  {NULL_STRING, <<>>, <<"red">>, <<"blue">>, <<URL_REL>>, <<URL_ABS>>}

\* setStyle, the test that guards the write: the stored value against the
\* value given
styleChanged(stored, value) == stored # value

\* setStyle, the value that is stored
styleToStore(value) ==
  IF value # NULL_STRING THEN prepareHtmlForEdit(value) ELSE <<>>

\* silex.model.Element.prototype.setStyle(element, styleName, opt_styleValue)
SetStyle(element, styleArg, value) ==
  LET styleName == toSelectorCase(styleArg)
      stored == styleObject[element][styleName]
      write == styleChanged(stored, value)
  IN  /\ kind[element] = "div"
      /\ styleObject' = IF write
                          THEN [styleObject EXCEPT
                                  ![element][styleName] = styleToStore(value)]
                          ELSE styleObject
      /\ className' = [className EXCEPT
                         ![element] = classListRemove(@, JUST_ADDED_CLASS_NAME)]
      /\ lastOp' = [op |-> "setStyle", element |-> element,
                    styleName |-> styleName, value |-> value,
                    stored |-> stored, wrote |-> write,
                    justAdded |-> classListContains(className[element],
                                                    JUST_ADDED_CLASS_NAME),
                    again |-> /\ lastOp.op = "setStyle"
                              /\ lastOp.element = element
                              /\ lastOp.styleName = styleName
                              /\ lastOp.value = value]
      /\ before' = childNodes
      /\ UNCHANGED <<fileUrl, link, innerHTML, kind, typeAttr, silexId, childNodes, activePage,
                     loads, nextLoad, calls>>

\* an element created by createElement(TYPE_CONTAINER) in a document that is
\* saved at a url or was never saved
InitStyle ==
  /\ kind = [n \in Nodes |-> IF n \in {Body, "e1"} THEN "div" ELSE "free"]
  /\ typeAttr = [n \in Nodes |-> IF n = "e1" THEN TYPE_CONTAINER ELSE NULL]
  /\ className = [n \in Nodes |->
                    IF n = "e1"
                      THEN <<EDITABLE_CLASS_NAME, SP, "silex-id-1", SP,
                             "container-element", SP, JUST_ADDED_CLASS_NAME>>
                      ELSE <<>>]
  /\ silexId = [n \in Nodes |-> IF n = "e1" THEN "silex-id-1" ELSE NULL]
  /\ childNodes = [n \in Nodes |-> IF n = Body THEN <<"e1">> ELSE <<>>]
  /\ activePage = "page1"
  /\ styleObject = [n \in Nodes |->
                      IF n = "e1" THEN DefaultStyle(TYPE_CONTAINER)
                      ELSE [name \in StyleNames |-> UNDEFINED_STRING]]
  /\ loads = {}
  /\ nextLoad = 0
  /\ calls = <<>>
  /\ link = [n \in Nodes |-> NULL]
  /\ innerHTML = [n \in Nodes |-> <<>>]
  /\ fileUrl \in {NULL, "site/index.html"}
  /\ lastOp = NoOp
  /\ before = childNodes

NextStyle ==
  \E styleArg \in StyleArgs, value \in StyleValues : SetStyle("e1", styleArg, value)

SpecStyle == InitStyle /\ [][NextStyle]_vars

----------------------------------------------------------------------------
(* Attributes and the class name projector *)

TYPE_ATTR == "data-silex-type"

\* the test getClassName and setClassName make of a piece of the class
\* attribute: an internal class, a page name or the element's own id
IsInternalPiece(element, name) ==
  \/ \E c \in SILEX_CLASS_NAMES : name = <<c>>
  \/ \E page \in getPages : name = <<page>>
  \/ (silexId[element] # NULL /\ name = <<silexId[element]>>)

\* silex.model.Element.prototype.getClassName: the pieces between the spaces
\* of the class attribute, an empty string in the place of each internal
\* one, joined by spaces and trimmed
getClassName(element) ==
  LET names == SplitOn(className[element], {SP})
  IN  Trim(JoinWith([i \in 1..Len(names) |->
                       IF IsInternalPiece(element, names[i]) THEN <<>> ELSE names[i]],
                    SP))

\* setClassName, classNamesToKeep.join(' '): the internal pieces kept, an
\* empty string in the place of every other piece
classNamesToKeep(element) ==
  LET names == SplitOn(className[element], {SP})
  IN  JoinWith([i \in 1..Len(names) |->
                  IF IsInternalPiece(element, names[i]) THEN names[i] ELSE <<>>],
               SP)

RECURSIVE addClasses(_, _)
\* setClassName, the forEach over opt_className.split(' '): each trimmed,
\* non empty name is added with classlist.add, which throws for a name that
\* holds white space; cls is the class attribute so far
addClasses(cls, names) ==
  IF Len(names) = 0 THEN [className |-> cls, threw |-> FALSE]
  ELSE LET name == Trim(names[1])
       IN  IF name = <<>> THEN addClasses(cls, Tail(names))
           ELSE IF \E i \in 1..Len(name) : name[i] \in WhiteSpace
             THEN [className |-> cls, threw |-> TRUE]
           ELSE addClasses(classListAddToken(cls, name), Tail(names))

\* the class attribute silex.model.Element.prototype.setClassName leaves,
\* and whether the call threw
setClassName(element, opt_className) ==
  LET reset == classNamesToKeep(element)
  IN  IF opt_className # NULL_STRING /\ opt_className # <<>>
        THEN addClasses(reset, SplitOn(opt_className, {SP}))
        ELSE [className |-> reset, threw |-> FALSE]

\* the atoms of the class attributes written and of the class names given
ClassAtoms == {"a", "page1", "silex-id-1", SELECTED_CLASS_NAME, SP, TAB}

\* the strings of at most n atoms
StringsUpTo(n) == UNION {[1..k -> ClassAtoms] : k \in 0..n}

LINK_ATTR == "data-silex-href"

\* silex.model.Element.prototype.setProperty(element, propertyName,
\* opt_propertyValue, opt_applyToContent) for the class, the type and the link
\* attribute
SetProperty(element, propertyName, value, applyToContent) ==
  LET target == IF applyToContent
                  THEN getContentNode(childNodes, className, element)
                  ELSE element
  IN  /\ kind[element] = "div"
      /\ propertyName \in {"class", TYPE_ATTR, LINK_ATTR}
      /\ className' = IF propertyName = "class"
                        THEN [className EXCEPT
                                ![target] = IF value # NULL_STRING THEN value ELSE <<>>]
                        ELSE className
      /\ typeAttr' = IF propertyName = TYPE_ATTR
                       THEN [typeAttr EXCEPT
                               ![target] = IF value # NULL_STRING THEN value[1] ELSE NULL]
                       ELSE typeAttr
      /\ link' = IF propertyName = LINK_ATTR
                   THEN [link EXCEPT
                           ![target] = IF value # NULL_STRING THEN value[1] ELSE NULL]
                   ELSE link
      /\ lastOp' = [op |-> "setProperty", element |-> element,
                    propertyName |-> propertyName]
      /\ before' = childNodes
      /\ UNCHANGED <<fileUrl, innerHTML, kind, silexId, childNodes, activePage,
                     styleObject, loads, nextLoad, calls>>

\* silex.model.Element.prototype.setLink(element, opt_link): a link that is
\* null or the empty string removes the attribute
SetLink(element, opt_link) ==
  /\ kind[element] = "div"
  /\ link' = [link EXCEPT
                ![element] = IF opt_link # NULL_STRING /\ opt_link # <<>>
                               THEN opt_link[1] ELSE NULL]
  /\ lastOp' = [op |-> "setLink", element |-> element]
  /\ before' = childNodes
  /\ UNCHANGED <<fileUrl, innerHTML, kind, typeAttr, className, silexId, childNodes,
                 activePage, styleObject, loads, nextLoad, calls>>

\* a call of getClassName(element), its result kept
GetClassName(element) ==
  /\ kind[element] = "div"
  /\ lastOp' = [op |-> "getClassName", element |-> element,
                result |-> getClassName(element)]
  /\ before' = childNodes
  /\ UNCHANGED <<fileUrl, link, innerHTML, kind, typeAttr, className, silexId, childNodes, activePage,
                 styleObject, loads, nextLoad, calls>>

\* silex.model.Element.prototype.setClassName(element, opt_className)
SetClassName(element, opt_className) ==
  LET done == setClassName(element, opt_className)
  IN  /\ kind[element] = "div"
      /\ className' = [className EXCEPT ![element] = done.className]
      /\ lastOp' = [op |-> "setClassName", element |-> element,
                    value |-> opt_className, threw |-> done.threw]
      /\ before' = childNodes
      /\ UNCHANGED <<fileUrl, link, innerHTML, kind, typeAttr, silexId, childNodes, activePage,
                     styleObject, loads, nextLoad, calls>>

InitClass == InitStyle /\ fileUrl = NULL

NextClass ==
  \/ \E value \in StringsUpTo(MaxClassLen) \cup {NULL_STRING} :
       SetProperty("e1", "class", value, FALSE)
  \/ GetClassName("e1")
  \/ \E value \in StringsUpTo(MaxClassLen) \cup {NULL_STRING} :
       SetClassName("e1", value)

SpecClass == InitClass /\ [][NextClass]_vars

\* the atoms of the class names an author gives to setClassName: no internal
\* class, no page name, no generated id
PublicAtoms == {"a", "b", SP, TAB}

\* the atoms of the class attribute the element has before: author classes
\* and a page class
RawAtoms == {"a", "b", "page1", SP, TAB}

\* the strings of at most n atoms of the set atoms
StringsOver(atoms, n) == UNION {[1..k -> atoms] : k \in 0..n}

NextPublic ==
  \/ \E value \in StringsOver(RawAtoms, MaxClassLen) \cup {NULL_STRING} :
       SetProperty("e1", "class", value, FALSE)
  \/ GetClassName("e1")
  \/ \E value \in StringsOver(PublicAtoms, MaxClassLen) \cup {NULL_STRING} :
       SetClassName("e1", value)

SpecPublic == InitClass /\ [][NextPublic]_vars

----------------------------------------------------------------------------
(* Elements just added to the stage, then styled or moved *)

NextAdded ==
  \/ \E type \in Types : CreateElement(type)
  \/ \E element \in Range(ElemPool) : AddElement(Body, element)
  \/ \E element \in Range(ElemPool), direction \in DomDirection :
       Move(element, direction)
  \/ \E element \in Range(ElemPool), value \in {NULL_STRING, <<"100px">>} :
       SetStyle(element, "height", value)

SpecAdded == InitImage /\ [][NextAdded]_vars

----------------------------------------------------------------------------
(* The html of an element, written and read through the codec *)

\* longest html given to setInnerHtml, in atoms
MaxHtmlLen == 2

\* the atoms of the html given to setInnerHtml
HtmlAtoms ==
  {SCRIPT_BARE, SCRIPT_JS, SCRIPT_NOTJS, SCRIPT_OTHER, NEWLINE, URL_REL, URL_ABS,
   URL_CACHED, STATIC_REL, TEXT_ATOM}

\* the html of at most n atoms
HtmlUpTo(n) == UNION {[1..k -> HtmlAtoms] : k \in 0..n}

\* silex.model.Element.prototype.setInnerHtml(element, innerHTML)
SetInnerHtml(element, html) ==
  LET contentNode == getContentNode(childNodes, className, element)
  IN  /\ kind[element] = "div"
      /\ innerHTML' = [innerHTML EXCEPT ![contentNode] = prepareHtmlForEdit(html)]
      /\ lastOp' = [op |-> "setInnerHtml", element |-> element, html |-> html]
      /\ before' = childNodes
      /\ UNCHANGED <<fileUrl, link, kind, typeAttr, className, silexId, childNodes,
                     activePage, styleObject, loads, nextLoad, calls>>

\* a call of getInnerHtml(element), its result kept, and with it the html the
\* call before gave to setInnerHtml for the same element, if that is what the
\* call before was
GetInnerHtml(element) ==
  LET contentNode == getContentNode(childNodes, className, element)
  IN  /\ kind[element] = "div"
      /\ lastOp' = [op |-> "getInnerHtml", element |-> element,
                    result |-> unprepareHtmlForEdit(innerHTML[contentNode]),
                    written |-> IF lastOp.op = "setInnerHtml" /\ lastOp.element = element
                                  THEN lastOp.html ELSE NULL_STRING]
      /\ before' = childNodes
      /\ UNCHANGED <<fileUrl, link, innerHTML, kind, typeAttr, className, silexId,
                     childNodes, activePage, styleObject, loads, nextLoad, calls>>

NextCodec ==
  \/ \E html \in HtmlUpTo(MaxHtmlLen) : SetInnerHtml("e1", html)
  \/ GetInnerHtml("e1")

SpecCodec == InitStyle /\ [][NextCodec]_vars

----------------------------------------------------------------------------
(* The life of one created element: every public operation on it *)

\* number of image loads started in the life of the one element
MaxNodeLoads == 1

\* the values setProperty is called with for each attribute
PropertyValues(propertyName) ==
  CASE propertyName = "class" -> {NULL_STRING, <<"a">>}
    [] propertyName = TYPE_ATTR -> {NULL_STRING, <<TYPE_TEXT>>}
    [] propertyName = LINK_ATTR -> {NULL_STRING, <<"http://x">>}

NextNode ==
  \/ \E type \in Types : kind["e1"] = "free" /\ CreateElement(type)
  \/ \E value \in {NULL_STRING, <<"red">>} : SetStyle("e1", "color", value)
  \/ \E propertyName \in {"class", TYPE_ATTR, LINK_ATTR}, applyToContent \in BOOLEAN :
       \E value \in PropertyValues(propertyName) :
         SetProperty("e1", propertyName, value, applyToContent)
  \/ \E opt_link \in {NULL_STRING, <<>>, <<"http://x">>} : SetLink("e1", opt_link)
  \/ \E direction \in DomDirection : Move("e1", direction)
  \/ AddElement(Body, "e1")
  \/ RemoveElement("e1")
  \/ \E url \in Urls : nextLoad < MaxNodeLoads /\ SetImageUrl("e1", url, FALSE, FALSE)
  \/ \E l \in loads : LoadSuccess(l)
  \/ \E l \in loads : LoadError(l)
  \/ \E value \in {NULL_STRING, <<"a">>} : SetClassName("e1", value)

SpecNode == InitImage /\ [][NextNode]_vars

----------------------------------------------------------------------------
(* Ordering claims *)

\* the Visible Sibling Order of parent's children in the tree cn: the Silex
\* elements among them that are on the current page or on no page
VisibleOrder(cn, parent) ==
  LET Shown(el) == IsSilexElement(el) /\ IsCandidate(el)
  IN  SelectSeq(cn[parent], Shown)

\* the step is a move DOWN of the element the step before moved UP
UpThenDown ==
  /\ lastOp.op = "move" /\ lastOp.direction = UP
  /\ lastOp'.op = "move" /\ lastOp'.direction = DOWN
  /\ lastOp'.element = lastOp.element

\* C3 as stated: move(node, UP) directly followed by move(node, DOWN) leaves
\* the Visible Sibling Order of the parent's children as it was before the two
\* moves, for every node, also one that has no visible successor.
C3_UpDownRestoresAlways ==
  [][UpThenDown => VisibleOrder(childNodes', Body) = VisibleOrder(before, Body)]_vars

\* the one case in which the DOWN does not undo the UP: the node is in the
\* Visible Sibling Order, the UP found no visible successor and did nothing,
\* and the DOWN found a visible predecessor
LastVisibleMovedDown ==
  /\ IsSilexElement(lastOp.element) /\ IsCandidate(lastOp.element)
  /\ lastOp.sibling = NULL
  /\ lastOp'.sibling # NULL

\* C3 amended: move(node, UP) directly followed by move(node, DOWN) leaves the
\* Visible Sibling Order of the parent's children as it was before the two
\* moves, except for a visible node that has no visible successor but has a
\* visible predecessor (there the UP does nothing and the DOWN is not undone).
C3_UpDownRestores ==
  [][(UpThenDown /\ ~LastVisibleMovedDown)
       => VisibleOrder(childNodes', Body) = VisibleOrder(before, Body)]_vars

\* C3 witness: a visible node was moved UP past its visible successor, which
\* lay behind a hidden sibling, and then DOWN again; the raw order changed.
C3_Witness ==
  /\ lastOp.op = "move" /\ lastOp.direction = DOWN /\ lastOp.after = "UP"
  /\ IsCandidate(lastOp.element)
  /\ \E h \in Siblings : IsSilexElement(h) /\ ~IsCandidate(h)
  /\ childNodes[Body] # <<"A", "B", "C", "D">>
  /\ VisibleOrder(childNodes, Body) = VisibleOrder([childNodes EXCEPT ![Body] = <<"A", "B", "C", "D">>], Body)

\* C4: move(node, TOP) followed by move(node, BOTTOM) leaves node as the
\* first entry of the parent's raw child sequence, whatever position it had.
C4_TopThenBottomFirst ==
  [][(/\ lastOp.op = "move" /\ lastOp.direction = TOP
      /\ lastOp'.op = "move" /\ lastOp'.direction = BOTTOM
      /\ lastOp'.element = lastOp.element)
       => childNodes'[Body][1] = lastOp'.element]_vars

\* C4 witness: B, the last child after its TOP, went BOTTOM and is first.
C4_Witness ==
  /\ lastOp.op = "move" /\ lastOp.direction = BOTTOM /\ lastOp.after = "TOP"
  /\ lastOp.element = "B"
  /\ before[Body][4] = "B"
  /\ childNodes[Body][1] = "B"

\* C6: a move in any direction adds no child to the parent and removes none,
\* and the raw child sequence without the moved node and without the visible
\* neighbour it was swapped with (UP, DOWN) is the same before and after.
C6_MoveKeepsOthers ==
  [][lastOp'.op = "move" =>
       /\ Len(childNodes'[Body]) = Len(childNodes[Body])
       /\ Range(childNodes'[Body]) = Range(childNodes[Body])
       /\ \A p \in Nodes \ {Body} : childNodes'[p] = childNodes[p]
       /\ Without(Without(childNodes'[Body], lastOp'.element), lastOp'.sibling)
            = Without(Without(childNodes[Body], lastOp'.element), lastOp'.sibling)]_vars

\* C6 witness: an UP swapped the node with a visible successor that lay
\* behind two filtered-out siblings (a text node or plain element, a hidden one).
C6_Witness ==
  /\ lastOp.op = "move" /\ lastOp.direction = UP /\ lastOp.sibling # NULL
  /\ before[Body][1] = lastOp.element
  /\ before[Body][4] = lastOp.sibling
  /\ ~IsSilexElement(before[Body][2])
  /\ IsSilexElement(before[Body][3]) /\ ~IsCandidate(before[Body][3])
  /\ childNodes[Body] = <<before[Body][4], before[Body][1], before[Body][2], before[Body][3]>>

\* the documented example: A on page1, B on page1 and page2, C on no page,
\* D on page1, in this order, page1 being the current page
ExampleChildren ==
  /\ childNodes[Body] = <<"A", "B", "C", "D">>
  /\ \A n \in Siblings : IsSilexElement(n)
  /\ getPagesForElement("A") = {"page1"}
  /\ getPagesForElement("B") = {"page1", "page2"}
  /\ getPagesForElement("C") = {}
  /\ getPagesForElement("D") = {"page1"}
  /\ activePage = "page1"

\* C5 as stated: in the example, nextVisible(A) is B, previousVisible(D) is B
\* and nextVisible(D) is null.
C5_ExampleAsStated ==
  ExampleChildren =>
    /\ getNextElement(childNodes, "A") = "B"
    /\ getPreviousElement(childNodes, "D") = "B"
    /\ getNextElement(childNodes, "D") = NULL

\* C5 amended: in the example, nextVisible(A) is B, previousVisible(D) is C
\* (C is on no page, hence visible everywhere) and nextVisible(D) is null.
C5_Example ==
  ExampleChildren =>
    /\ getNextElement(childNodes, "A") = "B"
    /\ getPreviousElement(childNodes, "D") = "C"
    /\ getNextElement(childNodes, "D") = NULL
    /\ (lastOp.op = "getPreviousElement" /\ lastOp.element = "D") => lastOp.result = "C"
    /\ (lastOp.op = "getNextElement" /\ lastOp.element = "A") => lastOp.result = "B"
    /\ (lastOp.op = "getNextElement" /\ lastOp.element = "D") => lastOp.result = NULL

\* C5 witness: getPreviousElement(D) was called in the example and gave C.
C5_Witness ==
  /\ ExampleChildren
  /\ lastOp.op = "getPreviousElement" /\ lastOp.element = "D"
  /\ lastOp.result = "C"

\* a Model Node: an element that carries the type attribute
IsModelNode(n) == kind[n] \in {"div", "img"} /\ typeAttr[n] # NULL

\* a node that is on the active page or on no page at all
OnActivePageOrNone(n) ==
  activePage \in ClassesOf(className[n]) \/ ClassesOf(className[n]) \cap getPages = {}

\* the positions in cs of the Model Nodes that are visible
VisibleAt(cs) == {j \in 1..Len(cs) : IsModelNode(cs[j]) /\ OnActivePageOrNone(cs[j])}

\* the nearest visible Model Node before node among its siblings in cn, or null
NearestBefore(cn, node) ==
  LET cs == cn[parentNode(cn, node)]
      at == {j \in VisibleAt(cs) : j < IndexOf(cs, node)}
  IN  IF at = {} THEN NULL ELSE cs[CHOOSE j \in at : \A k \in at : k <= j]

\* the nearest visible Model Node after node among its siblings in cn, or null
NearestAfter(cn, node) ==
  LET cs == cn[parentNode(cn, node)]
      at == {j \in VisibleAt(cs) : j > IndexOf(cs, node)}
  IN  IF at = {} THEN NULL ELSE cs[CHOOSE j \in at : \A k \in at : j <= k]

\* C16: for a Model Node, previousVisible(node) is the nearest preceding
\* sibling in raw order that is a Model Node and is on the active page or on no
\* page, null when there is none, and nextVisible(node) is the mirror for the
\* following siblings; text nodes, elements that are no Model Nodes and hidden
\* Model Nodes in between are skipped and stop neither scan.
C16_NearestVisible ==
  /\ \A node \in Siblings :
       IsModelNode(node) =>
         /\ getPreviousElement(childNodes, node) = NearestBefore(childNodes, node)
         /\ getNextElement(childNodes, node) = NearestAfter(childNodes, node)
  /\ (lastOp.op = "move" /\ IsModelNode(lastOp.element)) =>
       /\ lastOp.direction = UP => lastOp.sibling = NearestAfter(before, lastOp.element)
       /\ lastOp.direction = DOWN => lastOp.sibling = NearestBefore(before, lastOp.element)

\* C16 witness: a move DOWN of the last child found the first child as the
\* previous visible element, over a node that is no Model Node and a hidden one.
C16_Witness ==
  /\ lastOp.op = "move" /\ lastOp.direction = DOWN
  /\ before[Body][4] = lastOp.element
  /\ before[Body][1] = lastOp.sibling
  /\ ~IsModelNode(before[Body][2])
  /\ IsModelNode(before[Body][3]) /\ ~OnActivePageOrNone(before[Body][3])

\* C17: when the visible neighbour it needs exists, move(node, UP) puts
\* nextVisible(node) immediately before node in the raw child sequence and
\* move(node, DOWN) puts previousVisible(node) immediately after node; a
\* visible node is then one position later (UP) or earlier (DOWN) in the
\* Visible Sibling Order, and the visible order of all other siblings is as
\* it was.
C17_SwapWithVisibleNeighbour ==
  [][(lastOp'.op = "move" /\ lastOp'.direction \in {UP, DOWN} /\ lastOp'.sibling # NULL) =>
       LET node == lastOp'.element
           neighbour == lastOp'.sibling
           shift == IF lastOp'.direction = UP THEN 1 ELSE -1
           cs == childNodes'[Body]
           old == VisibleOrder(childNodes, Body)
           new == VisibleOrder(childNodes', Body)
       IN  /\ neighbour = IF lastOp'.direction = UP
                             THEN NearestAfter(childNodes, node)
                             ELSE NearestBefore(childNodes, node)
           /\ IndexOf(cs, node) = IndexOf(cs, neighbour) + shift
           /\ node \in Range(old) => IndexOf(new, node) = IndexOf(old, node) + shift
           /\ Without(new, node) = Without(old, node)]_vars

\* C17 witness: an UP of the visible second child, whose next visible element
\* lay behind a hidden one; the neighbour is now right before it and the node
\* is one place later in the visible order.
C17_Witness ==
  /\ lastOp.op = "move" /\ lastOp.direction = UP
  /\ before[Body][2] = lastOp.element
  /\ before[Body][4] = lastOp.sibling
  /\ IsModelNode(before[Body][3]) /\ ~OnActivePageOrNone(before[Body][3])
  /\ lastOp.element \in Range(VisibleOrder(before, Body))
  /\ childNodes[Body] = <<before[Body][1], before[Body][4], before[Body][2], before[Body][3]>>
  /\ IndexOf(VisibleOrder(childNodes, Body), lastOp.element)
       = IndexOf(VisibleOrder(before, Body), lastOp.element) + 1

----------------------------------------------------------------------------
(* Image loading claims *)

\* the descendants of element that carry the content marker class
ContentMarked(element) ==
  getElementsByClass(childNodes, className, ELEMENT_CONTENT_CLASS_NAME, element)

\* the loader l, started before a later setImageUrl on the same element,
\* delivers its image in this step
StaleLoadCompletes(l) ==
  /\ l.state = "LOADING"
  /\ LaterLoads(l) # {}
  /\ lastOp'.op = "load" /\ lastOp'.load = l.id

\* C1: when setImageUrl was called again on the same IMAGE node while an
\* earlier load was in flight, the completion of the earlier load is stale and
\* is discarded: it attaches no image node and invokes no success callback.
C1_StaleLoadDiscarded ==
  [][\A l \in loads :
       StaleLoadCompletes(l) =>
         /\ childNodes'[l.element] = childNodes[l.element]
         /\ calls' = calls]_vars

\* C2: an IMAGE node never has more than one descendant that carries the
\* content marker class 'silex-element-content'.
C2_AtMostOneContent ==
  \A element \in Range(ElemPool) :
    typeAttr[element] = TYPE_IMAGE => Len(ContentMarked(element)) <= 1

\* the element was created as an image and setImageUrl ran once on it, and
\* that load succeeded
LoadedOnce(element, l) ==
  /\ kind[element] = "div"
  /\ l.element = element
  /\ l.state = "LOADED"
  /\ \A m \in loads : m.element = element => m = l

\* C10: after create(IMAGE) and a single setImageUrl whose load succeeds, the
\* content node of the element is the loaded image, a child of the element
\* that carries the content marker class; the element no longer carries the
\* loading class, and its type is still IMAGE.
C10_SingleLoadSucceeds ==
  \A element \in Range(ElemPool) : \A l \in loads :
    LoadedOnce(element, l) =>
      /\ getContentNode(childNodes, className, element) = ImageOf(l.id)
      /\ ImageOf(l.id) \in Range(childNodes[element])
      /\ kind[ImageOf(l.id)] = "img"
      /\ classListContains(className[ImageOf(l.id)], ELEMENT_CONTENT_CLASS_NAME)
      /\ ~classListContains(className[element], LOADING_ELEMENT_CSS_CLASS)
      /\ getType(element) = TYPE_IMAGE

\* C10 witness: the LOAD listener has just run for the only load of e1.
C10_Witness ==
  /\ lastOp.op = "load" /\ lastOp.element = "e1"
  /\ \E l \in loads : LoadedOnce("e1", l) /\ l.id = lastOp.load
  /\ childNodes["e1"] = <<"img1">>

\* C12: setImageUrl on a node whose type is not IMAGE changes nothing (no
\* loading class, no child removed or added, no load started, hence no success
\* callback) and calls the error callback, if one is given, exactly once with
\* the element and a message.
C12_NotAnImageNoMutation ==
  [][(lastOp'.op = "setImageUrl" /\ getType(lastOp'.element) # TYPE_IMAGE) =>
       /\ <<kind, typeAttr, className, childNodes, loads, nextLoad>>'
            = <<kind, typeAttr, className, childNodes, loads, nextLoad>>
       /\ IF lastOp'.errCb
            THEN /\ Len(calls') = Len(calls) + 1
                 /\ SubSeq(calls', 1, Len(calls)) = calls
                 /\ calls'[Len(calls')].fn = "errorCallback"
                 /\ calls'[Len(calls')].element = lastOp'.element
                 /\ calls'[Len(calls')].message # ""
            ELSE calls' = calls]_vars

\* C12 witness: setImageUrl with an error callback ran on a text element; the
\* callback was called and no load exists.
C12_Witness ==
  /\ lastOp.op = "setImageUrl" /\ lastOp.errCb
  /\ getType(lastOp.element) = TYPE_TEXT
  /\ loads = {}
  /\ Len(calls) = 1 /\ calls[1].fn = "errorCallback"
  /\ childNodes[lastOp.element] = <<"c1">>

\* C18: the success callback of a load runs only after the image was appended
\* to the element and marked as its content and after the loading class was
\* removed: when the callback runs, the content node of the element is the
\* image and the element does not carry the loading class.
C18_CallbackAfterAttach ==
  \A i \in 1..Len(calls) :
    calls[i].fn = "callback" =>
      /\ calls[i].contentNode = calls[i].img
      /\ ~calls[i].loading

\* the element carries the loading class in the class attributes cls
IsLoading(cls, element) == LOADING_ELEMENT_CSS_CLASS \in ClassesOf(cls[element])

\* C19: when a load fails, the error callback, if given, is called with the
\* element and a message, the success callback is not called, no node is
\* attached to the element, and the loading class stays on the element; only
\* a successful load on that element takes the loading class off.
C19_FailureKeepsLoading ==
  [][/\ lastOp'.op = "error" =>
          \E l \in loads :
            /\ l.id = lastOp'.load /\ l.state = "LOADING"
            /\ IF l.errCb
                 THEN /\ Len(calls') = Len(calls) + 1
                      /\ SubSeq(calls', 1, Len(calls)) = calls
                      /\ calls'[Len(calls')].fn = "errorCallback"
                      /\ calls'[Len(calls')].element = l.element
                      /\ calls'[Len(calls')].message # ""
                 ELSE calls' = calls
            /\ childNodes' = childNodes /\ kind' = kind
            /\ ContentMarked(l.element)' = ContentMarked(l.element)
            /\ IsLoading(className', l.element) = IsLoading(className, l.element)
     /\ \A element \in Range(ElemPool) :
          (IsLoading(className, element) /\ ~IsLoading(className', element))
            => (lastOp'.op = "load" /\ lastOp'.element = element)]_vars

\* C19 witness: the only load of e1, started with an error callback, failed:
\* the callback was called, e1 has no content node and still carries the
\* loading class.
C19_Witness ==
  /\ lastOp.op = "error" /\ lastOp.element = "e1"
  /\ \A l \in loads : l.element = "e1" => (l.id = lastOp.load /\ l.state = "FAILED")
  /\ Len(calls) = 1 /\ calls[1].fn = "errorCallback" /\ calls[1].load = lastOp.load
  /\ ContentMarked("e1") = <<>>
  /\ IsLoading(className, "e1")

\* C23: while a load started by setImageUrl on an IMAGE element is still in
\* flight, the element carries the loading class 'loading-image'; the
\* completion of one load does not take the class off while another load on
\* the same element is pending.
C23_LoadingWhilePending ==
  \A l \in loads :
    l.state = "LOADING" => IsLoading(className, l.element)

----------------------------------------------------------------------------
(* Style claims *)

\* the canonical form of a value given to setStyle: the empty string for the
\* absent value, the sanitized value otherwise
Canonical(value) ==
  IF value = NULL_STRING THEN <<>> ELSE prepareHtmlForEdit(value)

\* C7: setStyle writes to the property store only if the canonical value
\* differs from the value stored for the property; the second of two
\* identical consecutive setStyle calls writes nothing, whatever the value.
C7_WriteOnlyOnChange ==
  [][lastOp'.op = "setStyle" =>
       /\ lastOp'.wrote => Canonical(lastOp'.value) # lastOp'.stored
       /\ lastOp'.again => ~lastOp'.wrote]_vars

----------------------------------------------------------------------------
(* Class name claims *)

\* the classes that are not the author's: the internal classes, the page
\* names and the element's own generated id
ReservedClasses(element) ==
  SILEX_CLASS_NAMES \cup getPages \cup ({silexId[element]} \ {NULL})

\* C8: whatever the raw class attribute of the node holds, the class list
\* getClassName returns holds no internal class, no page name and not the
\* node's generated id.
C8_PublicClassesHideReserved ==
  \A element \in {"e1"} :
    /\ ClassesOf(getClassName(element)) \cap ReservedClasses(element) = {}
    /\ (lastOp.op = "getClassName" /\ lastOp.element = element)
         => ClassesOf(lastOp.result) \cap ReservedClasses(element) = {}

\* C9: whatever its input, null and the empty string included, setClassName
\* removes no internal class, page class or generated id class the node
\* carried before the call.
C9_SetClassNameKeepsReserved ==
  [][lastOp'.op = "setClassName" =>
       \A c \in ReservedClasses(lastOp'.element) :
         c \in ClassesOf(className[lastOp'.element])
           => c \in ClassesOf(className'[lastOp'.element])]_vars

\* the non-empty tokens of a class list, in order
TokensOf(s) ==
  LET NonEmpty(t) == Len(t) > 0
  IN  SelectSeq(SplitOn(s, WhiteSpace), NonEmpty)

\* the distinct tokens of the class names given, in the order in which each
\* comes first; none for null
DistinctTokens(c) == IF c = NULL_STRING THEN <<>> ELSE Dedup(TokensOf(c))

\* C22: after setClassName(node, c), c holding no internal class, page name
\* or generated id, the non-empty tokens of getClassName(node) are the distinct
\* tokens of c in the order in which each comes first, whatever public classes
\* the node had before; setClassName(node, null) leaves no public class, and
\* setClassName(node, c) once more leaves the class attribute as it is.
C22_PublicClassesAreInput ==
  lastOp.op = "setClassName" =>
    /\ TokensOf(getClassName(lastOp.element)) = DistinctTokens(lastOp.value)
    /\ setClassName(lastOp.element, lastOp.value).className = className[lastOp.element]

----------------------------------------------------------------------------
(* Just-added claims *)

\* C21: the just-added class addElement puts on a node is absent after any
\* later setStyle on that node, whether or not the value changed and the store
\* was written, and after any later move of that node in any of the four
\* directions, also when the move finds no sibling in the direction asked for.
C21_JustAddedCleared ==
  /\ lastOp.op \in {"setStyle", "move"} =>
       JUST_ADDED_CLASS_NAME \notin ClassesOf(className[lastOp.element])
  /\ lastOp.op \in {"createElement", "addElement"} =>
       JUST_ADDED_CLASS_NAME \in ClassesOf(className[lastOp.element])

\* C21 witness: an element that carried the just-added class was moved UP
\* while it had no next element; the tree is as it was and the class is gone.
C21_Witness ==
  /\ lastOp.op = "move" /\ lastOp.direction = UP /\ lastOp.sibling = NULL
  /\ lastOp.justAdded
  /\ Len(childNodes[Body]) = 2
  /\ childNodes = before
  /\ JUST_ADDED_CLASS_NAME \notin ClassesOf(className[lastOp.element])

----------------------------------------------------------------------------
(* Codec claims *)

\* html that holds neither the notjavascript type nor the cache control
\* parameter
Clean(html) ==
  \A i \in 1..Len(html) : html[i] \notin {SCRIPT_NOTJS, URL_CACHED}

\* C14: for every html h that holds neither the 'notjavascript' type nor the
\* cache control parameter (h may hold a silex-script tag without a type
\* attribute), unprepareHtmlForEdit(prepareHtmlForEdit(h)) is h, whether the
\* url of the file is known or not: getInnerHtml returns what setInnerHtml
\* was just given.
C14_RoundTrip ==
  (lastOp.op = "getInnerHtml" /\ lastOp.written # NULL_STRING /\ Clean(lastOp.written))
    => /\ lastOp.result = lastOp.written
       /\ unprepareHtmlForEdit(prepareHtmlForEdit(lastOp.written)) = lastOp.written

----------------------------------------------------------------------------
(* Type claims *)

\* C13: whatever public operation runs on a created node (setStyle,
\* setProperty with any attribute name, on the node or redirected to its
\* content node, setLink, move, addElement, removeElement, setImageUrl and its
\* completions, setClassName), the type of a node that has a type stays the
\* type the node was created with.
C13_TypeNeverChanges ==
  [][\A n \in Nodes : getType(n) # NULL => typeAttr'[n] = typeAttr[n]]_vars

----------------------------------------------------------------------------
(* Tree claims *)

RECURSIVE Ancestors(_, _)
\* the nodes above n in the tree cn, n's parent first
Ancestors(cn, n) ==
  LET p == parentNode(cn, n)
  IN  IF p = NULL THEN <<>> ELSE <<p>> \o Ancestors(cn, p)

\* n is attached under the body in the tree cn
UnderBody(cn, n) == Body \in Range(Ancestors(cn, n))

\* C11: remove(node) detaches node, and nothing else, when node is not the
\* body and is attached under the body; called on the body or on a node that
\* is not attached under the body it leaves the whole document unchanged and
\* reports an error.
C11_RemoveOnlyUnderBody ==
  [][lastOp'.op = "removeElement" =>
       LET node == lastOp'.element
       IN  /\ <<kind, typeAttr, className, silexId, styleObject, link, innerHTML>>'
                = <<kind, typeAttr, className, silexId, styleObject, link, innerHTML>>
           /\ IF UnderBody(childNodes, node)
                THEN /\ ~lastOp'.reported
                     /\ parentNode(childNodes', node) = NULL
                     /\ childNodes' = [p \in Nodes |-> Without(childNodes[p], node)]
                     /\ childNodes'[node] = childNodes[node]
                ELSE /\ lastOp'.reported
                     /\ childNodes' = childNodes]_vars

\* C11 witness: e1, detached by an earlier remove while it held e2, was
\* removed again: the call reported an error and the tree is as it was.
C11_Witness ==
  /\ lastOp.op = "removeElement" /\ lastOp.element = "e1"
  /\ lastOp.reported
  /\ parentNode(childNodes, "e1") = NULL
  /\ "e2" \in Range(childNodes["e1"])
  /\ childNodes = before

\* some node attached under the body carries the background class
HasBackground ==
  \E n \in Nodes :
    UnderBody(childNodes, n) /\ BACKGROUND_CLASS_NAME \in ClassesOf(className[n])

\* the children of element that carry the content marker class, in the
\* tree cn with the class attributes cls
MarkedChildren(cn, cls, element) ==
  {c \in Range(cn[element]) : ELEMENT_CONTENT_CLASS_NAME \in ClassesOf(cls[c])}

\* C15: create(type), for each of the four types, adds exactly one new model
\* node to the tree, as the last child of the background container when one is
\* attached under the body and of the body otherwise; the new node has the
\* type asked for and carries the editable class, the class type+'-element'
\* and the just-added class; a TEXT or HTML node has exactly one content-marked
\* child, a CONTAINER or IMAGE node has none.
C15_CreateAddsOne ==
  [][lastOp'.op = "createElement" =>
       LET element == lastOp'.element
           type == lastOp'.type
           parent == parentNode(childNodes', element)
       IN  /\ kind[element] = "free" /\ kind'[element] = "div"
           /\ {n \in Nodes : typeAttr'[n] # NULL}
                = {n \in Nodes : typeAttr[n] # NULL} \cup {element}
           /\ \A n \in Nodes \ {element} : typeAttr'[n] = typeAttr[n]
           /\ IF HasBackground
                THEN /\ BACKGROUND_CLASS_NAME \in ClassesOf(className[parent])
                     /\ UnderBody(childNodes, parent)
                ELSE parent = Body
           /\ childNodes'[parent] = Append(childNodes[parent], element)
           /\ \A p \in Nodes \ {parent, element} : childNodes'[p] = childNodes[p]
           /\ typeAttr'[element] = type
           /\ {EDITABLE_CLASS_NAME, type \o "-element", JUST_ADDED_CLASS_NAME}
                \subseteq ClassesOf(className'[element])
           /\ Cardinality(MarkedChildren(childNodes', className', element))
                = IF type \in {TYPE_TEXT, TYPE_HTML} THEN 1 ELSE 0
           /\ Len(childNodes'[element])
                = IF type \in {TYPE_TEXT, TYPE_HTML} THEN 1 ELSE 0]_vars

\* C15 witness: a text element was created while the background container
\* lay inside another created element; it is the last child of the background
\* container and has its one content node.
C15_Witness ==
  /\ lastOp.op = "createElement" /\ lastOp.type = TYPE_TEXT
  /\ lastOp.element = "e2"
  /\ parentNode(childNodes, "e2") = "A"
  /\ parentNode(childNodes, "A") = "e1"
  /\ childNodes["e2"] = <<"c2">>
  /\ MarkedChildren(childNodes, className, "e2") = {"c2"}

\* C20: for every node of type CONTAINER the content node is the node itself,
\* whatever it holds, also when it holds exactly one TEXT, HTML or loaded
\* IMAGE element that has a content-marked node of its own.
C20_ContainerIsOwnContent ==
  \A n \in Nodes :
    (kind[n] = "div" /\ getType(n) = TYPE_CONTAINER)
      => getContentNode(childNodes, className, n) = n

====
